---- MODULE Spec2Model ----
(***************************************************************************)
(* laminterp: lexer -> recursive-descent parser -> tree-walking evaluator. *)
(*                                                                         *)
(* Representation.  A Go string is a sequence of fragments (TLA+ strings)  *)
(* whose concatenation, Str, is the text; the source text is a sequence of *)
(* one-character fragments, so the lexer can index it.  A Go interface{}   *)
(* value is a record with exactly one field, named after the dynamic type  *)
(* of the value; a type assertion v.(T) succeeds iff T is that field.  A   *)
(* pointer to a syntax node is the path from the root of the parse tree.   *)
(***************************************************************************)
EXTENDS Integers, Sequences, FiniteSets, TLC

VARIABLES
    input,      \* the source text handed to evalString / parseString
    pc,         \* "start" | "parsed" | "eval" | "done" | "panic"
    root,       \* the node returned by parseString(input)
    parser,     \* the parser struct (lexer, buf, ghosts)
    pstack,     \* the parse functions waiting for a parseExpression, top first
    pctl,       \* parseExpression being called, or the node just returned
    ctl,        \* the evalEnv call in progress, or the object it returned
    stack,      \* pending evalEnv(nodeApp) activations, innermost first
    envs,       \* every environment struct allocated so far; index = pointer
    heapNext,   \* address the allocator gives the next lamObject (%p)
    evalNo,     \* 1 for the first evaluation of root, 2 for the second
    first,      \* the object the first evaluation returned
    reused,     \* the second evaluation reuses the memory of the first
    log,        \* ghost: evalEnv entries, operand values and apply calls
    steps,      \* evalEnv steps taken by the evaluation in progress
    lex,        \* the lexer l of collectTokens
    tokens,     \* the tokens collectTokens has appended
    front       \* the front end: its mode, Readline calls, lines printed

vars == <<input, pc, root, parser, pstack, pctl, ctl, stack, envs, heapNext,
          evalNo, first, reused, log, steps, lex, tokens, front>>

----------------------------------------------------------------------------
(* Text *)

RECURSIVE Str(_)
Str(fs) == IF fs = <<>> THEN "" ELSE Head(fs) \o Str(Tail(fs))

LowerLetters ==
    {"a","b","c","d","e","f","g","h","i","j","k","l","m",
     "n","o","p","q","r","s","t","u","v","w","x","y","z"}

UpperLetters ==
    {"A","B","C","D","E","F","G","H","I","J","K","L","M",
     "N","O","P","Q","R","S","T","U","V","W","X","Y","Z"}

DigitChars == <<"0","1","2","3","4","5","6","7","8","9">>

eof == "EOF"   \* rune(-1): no one-character fragment equals it

isSpace(r) == r \in {" ", "\t", "\r", "\n"}

isLetter(r) == r \in LowerLetters \/ r \in UpperLetters

isDigit(r) == \E i \in 1..10 : DigitChars[i] = r

isBoundary(r) == isSpace(r) \/ r = ")" \/ r = eof

----------------------------------------------------------------------------
(* Lexer *)

tokenError      == 0
tokenEOF        == 1
tokenNumber     == 2
tokenBool       == 3
tokenIdentifier == 4
tokenLeftParen  == 5
tokenRightParen == 6

tokenType_String(t) ==
    CASE t = tokenError      -> "error"
      [] t = tokenEOF        -> "EOF"
      [] t = tokenNumber     -> "number"
      [] t = tokenBool       -> "bool"
      [] t = tokenIdentifier -> "identifier"
      [] t = tokenLeftParen  -> "'('"
      [] t = tokenRightParen -> "')'"

token_String(t) ==
    IF t.typ = tokenEOF THEN "EOF"
    ELSE "<" \o ToString(t.typ) \o "(" \o tokenType_String(t.typ) \o "):'"
             \o Str(t.val) \o "'>"

errorTokenf(msg) == [typ |-> tokenError, val |-> msg]

newLexer(in) == [input |-> in, pos |-> 0, start |-> 0, width |-> 0]

\* every rune of the modelled alphabet is one byte wide
lexer_next(l) ==
    IF l.pos >= Len(l.input)
    THEN [ch |-> eof, l |-> [l EXCEPT !.width = 0]]
    ELSE [ch |-> l.input[l.pos + 1],
          l  |-> [l EXCEPT !.pos = l.pos + 1, !.width = 1]]

lexer_unnext(l) == [l EXCEPT !.pos = l.pos - l.width]

lexer_val(l) == SubSeq(l.input, l.start + 1, l.pos)

emit(l, typ) ==
    [tok |-> [typ |-> typ, val |-> lexer_val(l)],
     l   |-> [l EXCEPT !.start = l.pos]]

RECURSIVE skipWhileSpace(_)
skipWhileSpace(l) ==
    LET r == lexer_next(l)
    IN  IF isSpace(r.ch) THEN skipWhileSpace(r.l) ELSE r.l

skipSpaces(l) ==
    LET l2 == lexer_unnext(skipWhileSpace(l))
    IN  [l2 EXCEPT !.start = l2.pos]

RECURSIVE scanDigits(_)
scanDigits(l) ==
    LET r == lexer_next(l)
    IN  IF isDigit(r.ch) THEN scanDigits(r.l) ELSE r

\* variant of lexNumber: the character after the sign is not tested
lexNumberAnySign(l) ==
    LET r1 == lexer_next(l)
        r2 == IF r1.ch = "-" THEN lexer_next(r1.l) ELSE r1
        r3 == IF isDigit(r2.ch) THEN scanDigits(r2.l) ELSE r2
    IN  IF ~isBoundary(r3.ch)
        THEN [tok |-> errorTokenf(<<"bad number syntax: '">>
                                  \o lexer_val(r3.l) \o <<"'">>),
              l   |-> r3.l]
        ELSE emit(lexer_unnext(r3.l), tokenNumber)

lexNumber(l) ==
    LET r1 == lexer_next(l)
        r2 == IF r1.ch = "-" THEN lexer_next(r1.l) ELSE r1
    IN  IF ~isDigit(r2.ch)
        THEN LET l3 == IF isBoundary(r2.ch) THEN lexer_unnext(r2.l) ELSE r2.l
             IN  [tok |-> errorTokenf(<<"bad number syntax: '">>
                                      \o lexer_val(l3) \o <<"'">>),
                  l   |-> l3]
        ELSE LET r3 == scanDigits(r2.l)
             IN  IF ~isBoundary(r3.ch)
                 THEN [tok |-> errorTokenf(<<"bad number syntax: '">>
                                           \o lexer_val(r3.l) \o <<"'">>),
                       l   |-> r3.l]
                 ELSE emit(lexer_unnext(r3.l), tokenNumber)

RECURSIVE scanWord(_)
scanWord(l) ==
    LET r == lexer_next(l)
    IN  IF isDigit(r.ch) \/ isLetter(r.ch) THEN scanWord(r.l) ELSE r

\* variant of lexIdentifier: the character after the word is not validated
lexIdentifierUnbounded(l) ==
    LET r  == scanWord(l)
        l2 == lexer_unnext(r.l)
    IN  emit(l2, IF Str(lexer_val(l2)) \in {"true", "false"}
                 THEN tokenBool ELSE tokenIdentifier)

lexIdentifier(l) ==
    LET r == scanWord(l)
    IN  IF ~isBoundary(r.ch)
        THEN [tok |-> errorTokenf(<<"bad identifier syntax: '">>
                                  \o lexer_val(r.l) \o <<"'">>),
              l   |-> r.l]
        ELSE LET l2 == lexer_unnext(r.l)
             IN  emit(l2, IF Str(lexer_val(l2)) \in {"true", "false"}
                          THEN tokenBool ELSE tokenIdentifier)

nextToken(l0) ==
    LET l == skipSpaces(l0)
        r == lexer_next(l)
    IN  CASE r.ch = "-" \/ isDigit(r.ch) -> lexNumber(lexer_unnext(r.l))
          [] isLetter(r.ch)              -> lexIdentifier(r.l)
          [] r.ch = "("                  -> emit(r.l, tokenLeftParen)
          [] r.ch = ")"                  -> emit(r.l, tokenRightParen)
          [] r.ch = eof                  -> emit(r.l, tokenEOF)
          [] OTHER -> [tok |-> errorTokenf(<<"illegal character: '", r.ch, "'">>),
                       l   |-> r.l]

----------------------------------------------------------------------------
(* Syntax tree *)

syntaxExpression == 0
syntaxRightParen == 1
syntaxNumber     == 2
syntaxBool       == 3
syntaxIdentifier == 4
syntaxEOF        == 5

syntaxType_String(t) ==
    CASE t = syntaxExpression -> "expression"
      [] t = syntaxRightParen -> "')'"
      [] t = syntaxNumber     -> "number"
      [] t = syntaxBool       -> "bool"
      [] t = syntaxIdentifier -> "identifier"
      [] t = syntaxEOF        -> "EOF"

nodeError      == 0
nodeApp        == 1
nodeLam        == 2
nodeIdentifier == 3
nodeNumber     == 4
nodeBool       == 5

\* fmt.Errorf without %w yields an *errors.errorString
errorNodef(msg) == [typ |-> nodeError, val |-> [errorString |-> Str(msg)]]

newExpectError(want, got) ==
    [typ |-> nodeError, val |-> [expectError |-> [want |-> want, got |-> got]]]

expectError_Error(e) ==
    "expecting " \o syntaxType_String(e.want) \o "; got "
                 \o tokenType_String(e.got)

\* err.Error() of the error stored in an error node
error_Error(v) ==
    IF "expectError" \in DOMAIN v THEN expectError_Error(v.expectError)
    ELSE v.errorString

\* the node a panicking call never returns
NoNode == [typ |-> -1, val |-> [none |-> TRUE]]

----------------------------------------------------------------------------
(* Parser.  The leaf parse functions return the node and the parser after  *)
(* it; the recursive ones run on an explicit call stack (pstack), one      *)
(* action per entry of parseExpression and per return into a caller.       *)
(* p.panic is the value passed to panic(), "" while the parser is running; *)
(* p.nexts and p.unnexts count the calls of next and unnext, p.last is the  *)
(* kind of the token the last call of next returned (ghosts).              *)

newParser(in) ==
    [lex |-> newLexer(in), buf |-> <<>>, panic |-> "",
     nexts |-> 0, unnexts |-> 0, last |-> -1]

\* variant of parser_next: the buffered token is returned but not cleared
parser_nextKeepsBuf(p) ==
    IF p.buf # <<>>
    THEN [tok |-> p.buf[1],
          p   |-> [p EXCEPT !.nexts = p.nexts + 1, !.last = p.buf[1].typ]]
    ELSE LET r == nextToken(p.lex)
         IN  [tok |-> r.tok,
              p   |-> [p EXCEPT !.lex = r.l, !.nexts = p.nexts + 1,
                                !.last = r.tok.typ]]

parser_next(p) ==
    IF p.buf # <<>>
    THEN [tok |-> p.buf[1],
          p   |-> [p EXCEPT !.buf = <<>>, !.nexts = p.nexts + 1,
                            !.last = p.buf[1].typ]]
    ELSE LET r == nextToken(p.lex)
         IN  [tok |-> r.tok,
              p   |-> [p EXCEPT !.lex = r.l, !.nexts = p.nexts + 1,
                                !.last = r.tok.typ]]

parser_unnext(p, t) ==
    IF p.buf # <<>>
    THEN [p EXCEPT !.panic = "internal parser error: multiple unnext"]
    ELSE [p EXCEPT !.buf = <<t>>, !.unnexts = p.unnexts + 1]

Aborted(r) == r.p.panic # ""

\* variant of parseIdentifier: the words lam and app are not identifiers
parseIdentifierNoKeywords(p) ==
    LET r == parser_next(p)
    IN  IF r.tok.typ # tokenIdentifier \/ Str(r.tok.val) \in {"lam", "app"}
        THEN [node |-> newExpectError(syntaxIdentifier, r.tok.typ), p |-> r.p]
        ELSE [node |-> [typ |-> nodeIdentifier,
                        val |-> [string |-> Str(r.tok.val)]],
              p    |-> r.p]

parseIdentifier(p) ==
    LET r == parser_next(p)
    IN  IF r.tok.typ # tokenIdentifier
        THEN [node |-> newExpectError(syntaxIdentifier, r.tok.typ), p |-> r.p]
        ELSE [node |-> [typ |-> nodeIdentifier,
                        val |-> [string |-> Str(r.tok.val)]],
              p    |-> r.p]

DigitValue(c) == (CHOOSE i \in 1..10 : DigitChars[i] = c) - 1

RECURSIVE DecimalValue(_, _)
DecimalValue(ds, acc) ==
    IF ds = <<>> THEN acc
    ELSE DecimalValue(Tail(ds), 10 * acc + DigitValue(Head(ds)))

\* new(big.Int).SetString(s, 10): optional sign, then one or more digits
SetString(s) ==
    LET signed == s # <<>> /\ Head(s) \in {"-", "+"}
        digits == IF signed THEN Tail(s) ELSE s
    IN  IF digits = <<>> \/ \E i \in 1..Len(digits) : ~isDigit(digits[i])
        THEN [ok |-> FALSE, n |-> 0]
        ELSE [ok |-> TRUE,
              n  |-> IF signed /\ Head(s) = "-"
                     THEN 0 - DecimalValue(digits, 0)
                     ELSE DecimalValue(digits, 0)]

parseNumber(p) ==
    LET r == parser_next(p)
        n == SetString(r.tok.val)
    IN  IF ~n.ok
        THEN [node |-> errorNodef(<<"bad number: '">> \o r.tok.val \o <<"'">>),
              p    |-> r.p]
        ELSE [node |-> [typ |-> nodeNumber, val |-> [bigInt |-> n.n]],
              p    |-> r.p]

parseBool(p) ==
    LET r == parser_next(p)
        s == Str(r.tok.val)
    IN  IF s \notin {"true", "false"}
        THEN [node |-> errorNodef(<<"bad bool: '">> \o r.tok.val \o <<"'">>),
              p    |-> r.p]
        ELSE [node |-> [typ |-> nodeBool, val |-> [bool |-> (s = "true")]],
              p    |-> r.p]

\* the parser a panic of unnext leaves behind, with no node returned
Unwind(p) == [node |-> NoNode, p |-> p]

\* A call of a parse function that is waiting for the parseExpression it
\* called: fn is the waiting function, wait the local the result goes to,
\* node the local it already holds (param of parseLam, fn of parseApp).
Frame(fn, wait, node) == [fn |-> fn, wait |-> wait, node |-> node]

NotParsing == [mode |-> "none"]

Calling == [mode |-> "call"]

Returned(n) == [mode |-> "ret", node |-> n]

\* parseExpression is called by the function that pushes frame f
PCall(p, f) ==
    /\ parser' = p
    /\ pstack' = <<f>> \o pstack
    /\ pctl' = Calling
    /\ UNCHANGED <<pc, root>>

\* the running parse function returns n to the frame on top of the stack
PReturn(p, n) ==
    /\ parser' = p
    /\ pctl' = Returned(n)
    /\ UNCHANGED <<pc, root, pstack>>

\* the running parse function ends with res, by return or by panic
PResult(res) ==
    IF Aborted(res)
    THEN /\ pc' = "panic"
         /\ parser' = res.p
         /\ UNCHANGED <<root, pstack, pctl>>
    ELSE PReturn(res.p, res.node)

\* parseLam after parseIdentifier returned param
parseLam(param) ==
    IF param.node.typ = nodeError
    THEN PReturn(param.p, param.node)
    ELSE PCall(param.p, Frame("parseLam", "body", param.node))

\* parseApp up to its first call of parseExpression
parseApp(p) == PCall(p, Frame("parseApp", "fn", NoNode))

\* parseExpression after p.next() returned r: the switch on the token
parseExpression(r) ==
    CASE r.tok.typ = tokenLeftParen ->
           PCall(r.p, Frame("parseExpression", "e", NoNode))
      [] r.tok.typ = tokenRightParen ->
           PReturn(r.p, newExpectError(syntaxExpression, tokenRightParen))
      [] r.tok.typ = tokenIdentifier /\ Str(r.tok.val) = "lam" ->
           parseLam(parseIdentifier(r.p))
      [] r.tok.typ = tokenIdentifier /\ Str(r.tok.val) = "app" ->
           parseApp(r.p)
      [] r.tok.typ = tokenNumber ->
           LET p2 == parser_unnext(r.p, r.tok)
           IN  PResult(IF p2.panic # "" THEN Unwind(p2) ELSE parseNumber(p2))
      [] r.tok.typ = tokenBool ->
           LET p2 == parser_unnext(r.p, r.tok)
           IN  PResult(IF p2.panic # "" THEN Unwind(p2) ELSE parseBool(p2))
      [] r.tok.typ = tokenIdentifier /\ Str(r.tok.val) \notin {"lam", "app"} ->
           LET p2 == parser_unnext(r.p, r.tok)
           IN  PResult(IF p2.panic # "" THEN Unwind(p2)
                       ELSE parseIdentifier(p2))
      [] r.tok.typ = tokenError ->
           PReturn(r.p, [typ |-> nodeError,
                         val |-> [errorString |-> Str(r.tok.val)]])
      [] r.tok.typ = tokenEOF ->
           PReturn(r.p, newExpectError(syntaxExpression, tokenEOF))
      [] OTHER ->
           PReturn(r.p, errorNodef(<<"illegal token: ", token_String(r.tok)>>))

\* parseExpression, case tokenLeftParen, after e is known not to be an
\* error and p.next() returned r
closeParen(e, r) ==
    IF r.tok.typ # tokenRightParen
    THEN [node |-> newExpectError(syntaxRightParen, r.tok.typ), p |-> r.p]
    ELSE [node |-> e, p |-> r.p]

\* variant of parse: trailing tokens are read but not rejected
parseAcceptsTrailing(e, r) == [node |-> e, p |-> r.p]

\* parse after e is known not to be an error and p.next() returned r
parse(e, r) ==
    IF r.tok.typ # tokenEOF
    THEN [node |-> newExpectError(syntaxEOF, r.tok.typ), p |-> r.p]
    ELSE [node |-> e, p |-> r.p]

\* variant of isUnexpectedEOFError: tests the expected category instead of
\* the received token
isUnexpectedEOFErrorByWant(n) ==
    IF n.typ # nodeError THEN FALSE
    ELSE IF "expectError" \in DOMAIN n.val
         THEN n.val.expectError.want = syntaxEOF
         ELSE FALSE

\* variant of isUnexpectedEOFError: only a missing expression is incomplete
isUnexpectedEOFErrorExpression(n) ==
    IF n.typ # nodeError THEN FALSE
    ELSE IF "expectError" \in DOMAIN n.val
         THEN n.val.expectError = [want |-> syntaxExpression, got |-> tokenEOF]
         ELSE FALSE

isUnexpectedEOFError(n) ==
    IF n.typ # nodeError THEN FALSE
    ELSE IF "expectError" \in DOMAIN n.val
         THEN n.val.expectError.got = tokenEOF
         ELSE FALSE

----------------------------------------------------------------------------
(* Runtime objects *)

objectError  == 0
objectBool   == 1
objectNumber == 2
objectFunc   == 3
objectLam    == 4

HexChars == <<"0","1","2","3","4","5","6","7","8","9","a","b","c","d","e","f">>

RECURSIVE HexDigits(_)
HexDigits(n) ==
    IF n < 16 THEN HexChars[n + 1]
    ELSE HexDigits(n \div 16) \o HexChars[(n % 16) + 1]

\* the verb %p
FormatPointer(a) == "0x" \o HexDigits(a)

\* Code addresses of the seven function literals of the builtins: %p of a
\* func value prints its code pointer, whatever the literal has captured.
TextBase == 4198400

FuncLiterals ==
    <<[name |-> "add", captured |-> 0], [name |-> "add", captured |-> 1],
      [name |-> "if",  captured |-> 0], [name |-> "if",  captured |-> 1],
      [name |-> "if",  captured |-> 2],
      [name |-> "gt",  captured |-> 0], [name |-> "gt",  captured |-> 1]>>

CodePointer(f) ==
    TextBase + 64 * (CHOOSE i \in 1..Len(FuncLiterals) :
                        FuncLiterals[i] = [name     |-> f.name,
                                           captured |-> Len(f.args)])

\* the heap arena and the size class of a lamObject (two words)
HeapBase == 49152
LamObjectSize == 16

\* a type assertion or the default case of String() would panic on v
StringPanics(v) ==
    CASE v.typ = objectError  -> "string" \notin DOMAIN v.val
      [] v.typ = objectBool   -> "bool" \notin DOMAIN v.val
      [] v.typ = objectNumber -> "bigInt" \notin DOMAIN v.val
      [] v.typ = objectFunc   -> FALSE
      [] v.typ = objectLam    -> "lamObject" \notin DOMAIN v.val
      [] OTHER                -> TRUE

errorObjectf(msg) == [typ |-> objectError, val |-> [string |-> msg]]

newFuncObject(name, args) ==
    [typ |-> objectFunc, val |-> [funcObject |-> [name |-> name, args |-> args]]]

\* what a call that panics never returns
Panicked == [typ |-> -1, val |-> [panic |-> TRUE]]

----------------------------------------------------------------------------
(* Syntax nodes by pointer *)

Child(n, sel) ==
    CASE sel = "fn"   -> n.val.appNode.fn
      [] sel = "arg"  -> n.val.appNode.arg
      [] sel = "body" -> n.val.lamNode.body

RECURSIVE NodeAt(_, _)
NodeAt(n, path) ==
    IF path = <<>> THEN n ELSE NodeAt(Child(n, Head(path)), Tail(path))

\* A *big.Int is the integer it points to (bigInt) and where that integer
\* lives (at): the path of the number node that owns it, or NewInt for one
\* allocated by new(big.Int).
NewInt == <<"new(big.Int)">>

\* z.Add(x, y): z is written and returned
bigInt_Add(z, x, y) == [bigInt |-> x.bigInt + y.bigInt, at |-> z]

\* the tree n after integer k is written to the *big.Int of the number node
\* at path
RECURSIVE StoreInt(_, _, _)
StoreInt(n, path, k) ==
    IF path = <<>>
    THEN IF n.typ = nodeNumber THEN [n EXCEPT !.val.bigInt = k] ELSE n
    ELSE CASE Head(path) = "fn" ->
                [n EXCEPT !.val.appNode.fn = StoreInt(@, Tail(path), k)]
           [] Head(path) = "arg" ->
                [n EXCEPT !.val.appNode.arg = StoreInt(@, Tail(path), k)]
           [] Head(path) = "body" ->
                [n EXCEPT !.val.lamNode.body = StoreInt(@, Tail(path), k)]

\* the tree after a builtin returned v: an integer that lives in a node is
\* what that node holds
Written(n, v) ==
    IF v.typ = objectNumber /\ "bigInt" \in DOMAIN v.val /\ v.val.at # NewInt
    THEN StoreInt(n, v.val.at, v.val.bigInt)
    ELSE n

\* lam.node.param, read through the node pointer of a lamObject
LamParam(path) == NodeAt(root, path).val.lamNode.param

String(v) ==
    CASE v.typ = objectError  -> v.val.string
      [] v.typ = objectBool   -> IF v.val.bool THEN "true" ELSE "false"
      [] v.typ = objectNumber -> ToString(v.val.bigInt)
      [] v.typ = objectFunc   ->
           "<function " \o FormatPointer(CodePointer(v.val.funcObject)) \o ">"
      [] v.typ = objectLam    ->
           "<lam " \o LamParam(v.val.lamObject.node) \o " "
                   \o FormatPointer(v.val.lamObject.addr) \o ">"

----------------------------------------------------------------------------
(* Builtins.  A funcObject is the function literal (name, number of       *)
(* captured arguments) together with the arguments it has captured.        *)

NotA(name, what, v) ==
    IF StringPanics(v) THEN Panicked
    ELSE errorObjectf(name \o ": not a " \o what \o ": '" \o String(v) \o "'")

\* variant of builtinAdd: the error for the second argument names the first
builtinAddNamesFirst(args, v) ==
    IF Len(args) = 0
    THEN IF v.typ # objectNumber THEN NotA("add", "number", v)
         ELSE newFuncObject("add", <<v>>)
    ELSE IF v.typ # objectNumber THEN NotA("add", "number", args[1])
         ELSE [typ |-> objectNumber,
               val |-> bigInt_Add(NewInt, args[1].val, v.val)]

\* variant of builtinAdd: the sum is stored in the first operand, an.Add(an, bn)
builtinAddInPlace(args, v) ==
    IF Len(args) = 0
    THEN IF v.typ # objectNumber THEN NotA("add", "number", v)
         ELSE newFuncObject("add", <<v>>)
    ELSE IF v.typ # objectNumber THEN NotA("add", "number", v)
         ELSE [typ |-> objectNumber,
               val |-> bigInt_Add(args[1].val.at, args[1].val, v.val)]

builtinAdd(args, v) ==
    IF Len(args) = 0
    THEN IF v.typ # objectNumber THEN NotA("add", "number", v)
         ELSE newFuncObject("add", <<v>>)
    ELSE IF v.typ # objectNumber THEN NotA("add", "number", v)
         ELSE IF "bigInt" \notin DOMAIN args[1].val
                 \/ "bigInt" \notin DOMAIN v.val
              THEN Panicked
              ELSE [typ |-> objectNumber,
                    val |-> bigInt_Add(NewInt, args[1].val, v.val)]

\* variant of builtinIf: the branches are exchanged
builtinIfSwapped(args, v) ==
    CASE Len(args) = 0 ->
           IF v.typ # objectBool THEN NotA("if", "bool", v)
           ELSE newFuncObject("if", <<v>>)
      [] Len(args) = 1 -> newFuncObject("if", <<args[1], v>>)
      [] OTHER -> IF args[1].val.bool THEN v ELSE args[2]

builtinIf(args, v) ==
    CASE Len(args) = 0 ->
           IF v.typ # objectBool THEN NotA("if", "bool", v)
           ELSE newFuncObject("if", <<v>>)
      [] Len(args) = 1 -> newFuncObject("if", <<args[1], v>>)
      [] OTHER ->
           IF "bool" \notin DOMAIN args[1].val THEN Panicked
           ELSE IF args[1].val.bool THEN args[2] ELSE v

builtinGt(args, v) ==
    IF Len(args) = 0
    THEN IF v.typ # objectNumber THEN NotA("gt", "number", v)
         ELSE newFuncObject("gt", <<v>>)
    ELSE IF v.typ # objectNumber THEN NotA("gt", "number", v)
         ELSE IF "bigInt" \notin DOMAIN args[1].val
                 \/ "bigInt" \notin DOMAIN v.val
              THEN Panicked
              ELSE [typ |-> objectBool,
                    val |-> [bool |-> args[1].val.bigInt > v.val.bigInt]]

funcObject_apply(f, v) ==
    CASE f.name = "add" -> builtinAdd(f.args, v)
      [] f.name = "if"  -> builtinIf(f.args, v)
      [] f.name = "gt"  -> builtinGt(f.args, v)

----------------------------------------------------------------------------
(* Environments.  A *environment is an index into envs; 0 is nil.          *)

newEnvironment(parent, symbol, val) ==
    [parent |-> parent, symbol |-> symbol, val |-> val]

defaultFrames ==
    <<newEnvironment(0, "add", newFuncObject("add", <<>>)),
      newEnvironment(1, "if",  newFuncObject("if",  <<>>)),
      newEnvironment(2, "gt",  newFuncObject("gt",  <<>>))>>

\* variant of defaultEnvironment: the global is left pointing at the frame
\* allocated last
lastEnvironment == Len(envs)

defaultEnvironment == Len(defaultFrames)

\* e.extend(symbol, val): the heap after the allocation; the new frame is
\* the last one
extend(heap, e, symbol, val) == Append(heap, newEnvironment(e, symbol, val))

\* variant of lookup: the outermost matching frame wins
RECURSIVE lookupOutermostFirst(_, _, _)
lookupOutermostFirst(heap, e, symbol) ==
    IF e = 0 THEN errorObjectf("unknown identifier: '" \o symbol \o "'")
    ELSE LET outer == lookupOutermostFirst(heap, heap[e].parent, symbol)
         IN  IF outer.typ # objectError THEN outer
             ELSE IF symbol = heap[e].symbol THEN heap[e].val ELSE outer

RECURSIVE lookup(_, _, _)
lookup(heap, e, symbol) ==
    IF e = 0 THEN errorObjectf("unknown identifier: '" \o symbol \o "'")
    ELSE IF symbol = heap[e].symbol THEN heap[e].val
         ELSE lookup(heap, heap[e].parent, symbol)

----------------------------------------------------------------------------
(* Bounds and inputs *)

MaxPieces == 4    \* pieces of source text in a free-form input
MaxNum    == 2    \* number literals of the generated programs: -1..MaxNum
MaxSteps  == 16   \* evalEnv calls of one evaluation

wLam   == <<"l","a","m">>
wApp   == <<"a","p","p">>
wAdd   == <<"a","d","d">>
wIf    == <<"i","f">>
wTrue  == <<"t","r","u","e">>
wFalse == <<"f","a","l","s","e">>
wX     == <<"x">>
wY     == <<"y">>
wF     == <<"f">>

RECURSIVE Decimal(_)
Decimal(n) ==
    IF n < 10 THEN <<DigitChars[n + 1]>>
    ELSE Decimal(n \div 10) \o <<DigitChars[(n % 10) + 1]>>

NumText(n) == IF n < 0 THEN <<"-">> \o Decimal(0 - n) ELSE Decimal(n)

RECURSIVE Join(_)
Join(ws) ==
    IF Len(ws) = 1 THEN ws[1] ELSE ws[1] \o <<" ">> \o Join(Tail(ws))

Paren(t) == <<"(">> \o t \o <<")">>

RECURSIVE Concat(_)
Concat(ps) == IF ps = <<>> THEN <<>> ELSE Head(ps) \o Concat(Tail(ps))

\* free-form text: every concatenation of at most MaxPieces pieces
Pieces ==
    {wLam \o <<" ">>, wApp \o <<" ">>, wTrue \o <<" ">>, wX,
     <<"1">>, <<" ">>, <<"(">>, <<")">>, <<"-">>, <<"]">>}

FreeText ==
    UNION {{Concat(ps) : ps \in [1..k -> Pieces]} : k \in 0..MaxPieces}

NumLits == {NumText(n) : n \in -1..MaxNum}

Operands == NumLits \cup {wTrue, wFalse, wX, wAdd, Join(<<wLam, wX, wX>>)}

Names == {wX, wY, wAdd}

Args == {NumText(1), NumText(MaxNum), wX, wTrue}

App2Text(f, a) == Join(<<wApp, f, a>>)

App2Programs == {App2Text(f, a) : f \in Operands, a \in Operands}

AddText(a, b) == Join(<<wApp, wApp, wAdd, a, b>>)

AddPrograms == {AddText(a, b) : a \in Operands, b \in Operands}

IfText(c, t, e) == Join(<<wApp, wApp, wApp, wIf, c, t, e>>)

IfPrograms ==
    {IfText(c, t, e) : c \in Operands, t \in Operands, e \in Operands}

\* app app lam p lam q r a b
ClosureText(p, q, r, a, b) == Join(<<wApp, wApp, wLam, p, wLam, q, r, a, b>>)

ClosurePrograms ==
    {ClosureText(p, q, r, a, b) :
        p \in Names, q \in Names, r \in Names, a \in Args, b \in Args}

\* app (lam f app (lam p app f 0) b) (app lam q lam y r c): the closure bound
\* to f is created under q -> c and called under p -> b
ScopeText(p, q, r, b, c) ==
    Join(<<wApp,
           Paren(Join(<<wLam, wF, wApp,
                        Paren(Join(<<wLam, p, wApp, wF, NumText(0)>>)), b>>)),
           Paren(Join(<<wApp, wLam, q, wLam, wY, r, c>>))>>)

ScopePrograms ==
    {ScopeText(p, q, r, NumText(MaxNum), NumText(c)) :
        p \in {wX, wY}, q \in {wX, wY}, r \in {wX, wY, wF}, c \in 0..1}

\* app lam x app x x lam x app x x: does not terminate
OmegaPrograms ==
    {Join(<<wApp, wLam, wX, wApp, wX, wX, wLam, wX, wApp, wX, wX>>)}

\* the incomplete program of the interactive reader's example
LamXText == Join(<<wLam, wX>>)

\* well-formed expressions, and single tokens to put after one
Expressions ==
    Operands \cup {Paren(wX), App2Text(wAdd, NumText(1)),
                   Join(<<wLam, wY, Paren(Join(<<wApp, wY, wX>>))>>)}

TrailingTokens ==
    {NumText(1), wTrue, wX, wLam, wApp, <<"(">>, <<")">>, <<"]">>, <<"-">>}

TrailingText(e, t) == e \o <<" ">> \o t

TrailingPrograms ==
    {TrailingText(e, t) : e \in Expressions, t \in TrailingTokens}

UnclosedText(e) == <<"(">> \o e

UnclosedPrograms == {UnclosedText(e) : e \in Expressions}

\* lam and app as a parameter name, a body and an argument
KeywordPrograms ==
    {Join(<<wLam, p, b>>) : p \in {wLam, wApp, wX},
                            b \in {NumText(1), wLam, wApp, wX}}
      \cup {App2Text(wX, k) : k \in {wLam, wApp}}

\* lambda bodies that fail or diverge once evaluated
FailingBodies ==
    {wY, App2Text(NumText(1), NumText(2)),
     Join(<<wApp, wLam, wX, wApp, wX, wX, wLam, wX, wApp, wX, wX>>)}

LazyText(b) == Join(<<wLam, wX, b>>)

\* lam x b alone, and applied to 0
LazyPrograms ==
    {LazyText(b) : b \in FailingBodies}
      \cup {Join(<<wApp, LazyText(b), NumText(0)>>) : b \in FailingBodies}

MaxTokens == 5   \* tokens of a generated well-formed program

Atoms == {<<NumText(1)>>, <<wX>>, <<wTrue>>}

\* the well-formed programs of exactly n tokens, built by the grammar of
\* parseExpression; a program is a sequence of words
RECURSIVE Programs(_)
Programs(n) ==
    IF n < 1 THEN {}
    ELSE IF n = 1 THEN Atoms
    ELSE {<<<<"(">>>> \o e \o <<<<")">>>> : e \in Programs(n - 2)}
           \cup {<<wLam, p>> \o e : p \in {wX, wLam}, e \in Programs(n - 2)}
           \cup UNION {{<<wApp>> \o f \o a :
                           f \in Programs(i), a \in Programs(n - 1 - i)} :
                        i \in 1..(n - 2)}

WellFormed == UNION {Programs(n) : n \in 1..MaxTokens}

TextOf(ws) == IF ws = <<>> THEN <<>> ELSE Join(ws)

WellFormedTexts == {TextOf(w) : w \in WellFormed}

\* a well-formed program cut before one of its tokens
PrefixTexts ==
    UNION {{TextOf(SubSeq(w, 1, k)) : k \in 0..(Len(w) - 1)} : w \in WellFormed}

Inputs ==
    FreeText \cup {LamXText} \cup App2Programs \cup AddPrograms
             \cup IfPrograms \cup ClosurePrograms \cup ScopePrograms
             \cup OmegaPrograms \cup Expressions \cup TrailingPrograms
             \cup UnclosedPrograms \cup KeywordPrograms \cup LazyPrograms
             \cup WellFormedTexts \cup PrefixTexts

----------------------------------------------------------------------------
(* evalString: parseString, then eval, one evalEnv step at a time *)

Idle == [mode |-> "idle"]

\* evalString and collectTokens are called by the tests, not by main
NoFrontEnd == [mode |-> "test", format |-> FALSE, reads |-> 0, out |-> <<>>]

Init ==
    /\ input \in Inputs
    /\ pc = "start"
    /\ root = NoNode
    /\ parser = newParser(input)
    /\ pstack = <<>>
    /\ pctl = NotParsing
    /\ ctl = Idle
    /\ stack = <<>>
    /\ envs = defaultFrames
    /\ heapNext = HeapBase
    /\ evalNo = 1
    /\ first = Panicked
    /\ reused = FALSE
    /\ log = <<>>
    /\ steps = 0
    /\ lex = newLexer(input)
    /\ tokens = <<>>
    /\ front = NoFrontEnd

evalVars == <<ctl, stack, envs, heapNext, evalNo, first, reused, log, steps>>

\* parseString(s): parse(newParser(s)) up to its call of parseExpression
ParseString ==
    /\ pc = "start"
    /\ pc' = "parse"
    /\ parser' = newParser(input)
    /\ pstack' = <<Frame("parse", "e", NoNode)>>
    /\ pctl' = Calling
    /\ UNCHANGED <<front, lex, tokens, input, root>>
    /\ UNCHANGED evalVars

ParseExpression ==
    /\ pc = "parse"
    /\ pctl.mode = "call"
    /\ parseExpression(parser_next(parser))
    /\ UNCHANGED <<front, lex, tokens, input>>
    /\ UNCHANGED evalVars

WaitingFor(fn, wait) ==
    /\ pc = "parse"
    /\ pctl.mode = "ret"
    /\ pstack # <<>>
    /\ Head(pstack).fn = fn
    /\ Head(pstack).wait = wait

\* e := p.parseExpression() returned in case tokenLeftParen
ParenReturned ==
    /\ WaitingFor("parseExpression", "e")
    /\ pstack' = Tail(pstack)
    /\ IF pctl.node.typ = nodeError
       THEN UNCHANGED <<parser, pctl>>
       ELSE LET res == closeParen(pctl.node, parser_next(parser))
            IN  /\ parser' = res.p
                /\ pctl' = Returned(res.node)
    /\ UNCHANGED <<front, lex, tokens, input, pc, root>>
    /\ UNCHANGED evalVars

\* variant of LamBodyReturned: the body is not tested for an error
LamBodyReturnedUnchecked ==
    /\ WaitingFor("parseLam", "body")
    /\ pstack' = Tail(pstack)
    /\ pctl' = Returned([typ |-> nodeLam,
                         val |-> [lamNode |->
                             [param |-> Head(pstack).node.val.string,
                              body  |-> pctl.node]]])
    /\ UNCHANGED <<front, lex, tokens, input, pc, root, parser>>
    /\ UNCHANGED evalVars

\* body := p.parseExpression() returned in parseLam
LamBodyReturned ==
    /\ WaitingFor("parseLam", "body")
    /\ pstack' = Tail(pstack)
    /\ pctl' = IF pctl.node.typ = nodeError
               THEN pctl
               ELSE Returned([typ |-> nodeLam,
                              val |-> [lamNode |->
                                  [param |-> Head(pstack).node.val.string,
                                   body  |-> pctl.node]]])
    /\ UNCHANGED <<front, lex, tokens, input, pc, root, parser>>
    /\ UNCHANGED evalVars

\* fn := p.parseExpression() returned in parseApp
ParseAppFnReturned ==
    /\ WaitingFor("parseApp", "fn")
    /\ IF pctl.node.typ = nodeError
       THEN /\ pstack' = Tail(pstack)
            /\ UNCHANGED pctl
       ELSE /\ pstack' = <<Frame("parseApp", "arg", pctl.node)>>
                            \o Tail(pstack)
            /\ pctl' = Calling
    /\ UNCHANGED <<front, lex, tokens, input, pc, root, parser>>
    /\ UNCHANGED evalVars

\* arg := p.parseExpression() returned in parseApp
ParseAppArgReturned ==
    /\ WaitingFor("parseApp", "arg")
    /\ pstack' = Tail(pstack)
    /\ pctl' = IF pctl.node.typ = nodeError
               THEN pctl
               ELSE Returned([typ |-> nodeApp,
                              val |-> [appNode |->
                                  [fn  |-> Head(pstack).node,
                                   arg |-> pctl.node]]])
    /\ UNCHANGED <<front, lex, tokens, input, pc, root, parser>>
    /\ UNCHANGED evalVars

\* e := p.parseExpression() returned in parse; parse returns to parseString
ParseReturned ==
    /\ WaitingFor("parse", "e")
    /\ pstack' = Tail(pstack)
    /\ pctl' = NotParsing
    /\ pc' = "parsed"
    /\ IF pctl.node.typ = nodeError
       THEN /\ root' = pctl.node
            /\ UNCHANGED parser
       ELSE LET res == parse(pctl.node, parser_next(parser))
            IN  /\ root' = res.node
                /\ parser' = res.p
    /\ UNCHANGED <<front, lex, tokens, input>>
    /\ UNCHANGED evalVars

\* eval(n) == evalEnv(n, defaultEnvironment)
Eval ==
    /\ pc = "parsed"
    /\ pc' = "eval"
    /\ ctl' = [mode |-> "eval", n |-> <<>>, env |-> defaultEnvironment]
    /\ UNCHANGED <<front, lex, tokens, input, root, parser, pstack, pctl,
                   stack, envs, heapNext, evalNo, first, reused, log, steps>>

Returning(v) == [mode |-> "ret", val |-> v]

\* case nodeError of evalEnv: n.val.(string) on the error stored in the node
evalNodeError(n) ==
    IF "string" \in DOMAIN n.val
    THEN errorObjectf("parse error: " \o n.val.string)
    ELSE Panicked

\* &object{objectNumber, n.val}: the object shares the *big.Int of the node
IntOf(n, at) ==
    IF "bigInt" \in DOMAIN n.val
    THEN [bigInt |-> n.val.bigInt, at |-> at]
    ELSE n.val

\* variant of evalLeaf: a closure captures the default environment
evalLeafGlobalClosure(n, at, env, a) ==
    CASE n.typ = nodeLam ->
           IF "lamNode" \in DOMAIN n.val
           THEN [typ |-> objectLam,
                 val |-> [lamObject |-> [node |-> at,
                                         env  |-> defaultEnvironment,
                                         addr |-> a]]]
           ELSE Panicked
      [] n.typ = nodeNumber -> [typ |-> objectNumber, val |-> IntOf(n, at)]
      [] n.typ = nodeBool -> [typ |-> objectBool, val |-> n.val]
      [] n.typ = nodeIdentifier ->
           IF "string" \in DOMAIN n.val
           THEN lookup(envs, env, n.val.string)
           ELSE Panicked
      [] n.typ = nodeError -> evalNodeError(n)
      [] OTHER -> Panicked

\* the leaf cases of evalEnv: the object returned for node n, allocated at a
evalLeaf(n, at, env, a) ==
    CASE n.typ = nodeLam ->
           IF "lamNode" \in DOMAIN n.val
           THEN [typ |-> objectLam,
                 val |-> [lamObject |-> [node |-> at, env |-> env, addr |-> a]]]
           ELSE Panicked
      [] n.typ = nodeNumber -> [typ |-> objectNumber, val |-> IntOf(n, at)]
      [] n.typ = nodeBool -> [typ |-> objectBool, val |-> n.val]
      [] n.typ = nodeIdentifier ->
           IF "string" \in DOMAIN n.val
           THEN lookup(envs, env, n.val.string)
           ELSE Panicked
      [] n.typ = nodeError -> evalNodeError(n)
      [] OTHER -> Panicked   \* panic("invalid node")

\* entry of evalEnv(n, env): the switch on n.typ
EvalEnv ==
    /\ pc = "eval"
    /\ ctl.mode = "eval"
    /\ steps < MaxSteps
    /\ steps' = steps + 1
    /\ log' = Append(log, [ev |-> "eval", n |-> ctl.n, env |-> ctl.env])
    /\ LET n == NodeAt(root, ctl.n)
       IN  IF n.typ = nodeApp /\ "appNode" \in DOMAIN n.val
           THEN /\ stack' = <<[app |-> ctl.n, env |-> ctl.env, stage |-> "fn"]>>
                            \o stack
                /\ ctl' = [mode |-> "eval", n |-> Append(ctl.n, "fn"),
                           env |-> ctl.env]
                /\ UNCHANGED <<pc, heapNext>>
           ELSE LET v == IF n.typ = nodeApp THEN Panicked
                         ELSE evalLeaf(n, ctl.n, ctl.env, heapNext)
                IN  /\ ctl' = Returning(v)
                    /\ pc' = IF v = Panicked THEN "panic" ELSE pc
                    /\ heapNext' = IF v.typ = objectLam
                                   THEN heapNext + LamObjectSize ELSE heapNext
                    /\ UNCHANGED stack
    /\ UNCHANGED <<front, lex, tokens, input, root, parser, pstack, pctl,
                   envs, evalNo, first, reused>>

\* variant of propagates: an error value is treated like any other value
propagatesNever(v) == FALSE

\* the tests "fn.typ == objectError" and "arg.typ == objectError"
propagates(v) == v.typ = objectError

\* variant of isApplyer: the assertion is not checked
isApplyerUnchecked(val) == TRUE

\* fn.val.(applyer): the dynamic type has an apply method
isApplyer(val) == "funcObject" \in DOMAIN val \/ "lamObject" \in DOMAIN val

\* variant of closureEnv: the body frame extends the caller's environment
closureEnvOfCaller(lam, callEnv) == callEnv

\* the environment a closure's body frame extends: v.env, whatever the
\* environment of the application being evaluated
closureEnv(lam, callEnv) == lam.env

\* evalEnv(nodeApp) after app.fn has been evaluated
AppFnReturned ==
    /\ pc = "eval"
    /\ ctl.mode = "ret"
    /\ stack # <<>>
    /\ Head(stack).stage = "fn"
    /\ LET fr == Head(stack)
       IN  /\ log' = Append(log, [ev |-> "val", n |-> Append(fr.app, "fn"),
                                  val |-> ctl.val])
           /\ IF propagates(ctl.val)
              THEN /\ stack' = Tail(stack)
                   /\ ctl' = ctl
              ELSE /\ stack' = <<[app |-> fr.app, env |-> fr.env,
                                  stage |-> "arg", fn |-> ctl.val]>>
                               \o Tail(stack)
                   /\ ctl' = [mode |-> "eval", n |-> Append(fr.app, "arg"),
                              env |-> fr.env]
    /\ UNCHANGED <<front, lex, tokens, input, pc, root, parser, pstack, pctl,
                   envs, heapNext, evalNo, first, reused, steps>>

\* evalEnv(nodeApp) after app.arg has been evaluated: the call of apply
AppArgReturned ==
    /\ pc = "eval"
    /\ ctl.mode = "ret"
    /\ stack # <<>>
    /\ Head(stack).stage = "arg"
    /\ stack' = Tail(stack)
    /\ LET fr  == Head(stack)
           fn  == fr.fn
           arg == ctl.val
           got == [ev |-> "val", n |-> Append(fr.app, "arg"), val |-> arg]
           app == [ev |-> "apply", fn |-> fn, arg |-> arg]
       IN  IF propagates(arg)
           THEN /\ ctl' = ctl
                /\ log' = Append(log, got)
                /\ UNCHANGED <<pc, envs, root>>
           ELSE IF ~isApplyer(fn.val)
           THEN /\ ctl' = Returning(
                            IF StringPanics(fn) THEN Panicked
                            ELSE errorObjectf("apply: invalid function: '"
                                              \o String(fn) \o "'"))
                /\ pc' = IF StringPanics(fn) THEN "panic" ELSE pc
                /\ log' = Append(log, got)
                /\ UNCHANGED <<envs, root>>
           ELSE IF "funcObject" \in DOMAIN fn.val
           THEN LET v == funcObject_apply(fn.val.funcObject, arg)
                IN  /\ ctl' = Returning(v)
                    /\ pc' = IF v = Panicked THEN "panic" ELSE pc
                    /\ log' = log \o <<got, app>>
                    /\ root' = Written(root, v)
                    /\ UNCHANGED envs
           ELSE IF "lamObject" \in DOMAIN fn.val
           THEN LET lam == fn.val.lamObject
                IN  /\ envs' = extend(envs, closureEnv(lam, fr.env),
                                      LamParam(lam.node), arg)
                    /\ ctl' = [mode |-> "eval", n |-> Append(lam.node, "body"),
                               env |-> Len(envs')]
                    /\ log' = log \o <<got, app>>
                    /\ UNCHANGED <<pc, root>>
           ELSE \* apply called on a value without the method
                /\ ctl' = Returning(Panicked)
                /\ pc' = "panic"
                /\ log' = Append(log, got)
                /\ UNCHANGED <<envs, root>>
    /\ UNCHANGED <<front, lex, tokens, input, parser, pstack, pctl, heapNext,
                   evalNo, first, reused, steps>>

\* eval returns to its caller
Return ==
    /\ pc = "eval"
    /\ ctl.mode = "ret"
    /\ stack = <<>>
    /\ pc' = "done"
    /\ UNCHANGED <<front, lex, tokens, input, root, parser, pstack, pctl, ctl,
                   stack, envs, heapNext, evalNo, first, reused, log, steps>>

\* an object that holds no pointer keeps nothing of the evaluation alive
HoldsNoPointer(v) == v.typ \in {objectError, objectBool, objectNumber}

\* The caller evaluates the same tree again.  The memory of the first
\* evaluation is either still in use or, when nothing reachable points into
\* it, may have been reclaimed and be handed out again; the frames of the
\* default environment stay.
Again ==
    /\ pc = "done"
    /\ evalNo = 1
    /\ evalNo' = 2
    /\ first' = ctl.val
    /\ \E gc \in {b \in BOOLEAN : b => HoldsNoPointer(ctl.val)} :
          /\ reused' = gc
          /\ heapNext' = IF gc THEN HeapBase ELSE heapNext
          /\ envs' = IF gc THEN SubSeq(envs, 1, defaultEnvironment) ELSE envs
    /\ pc' = "eval"
    /\ ctl' = [mode |-> "eval", n |-> <<>>, env |-> defaultEnvironment]
    /\ stack' = <<>>
    /\ log' = <<>>
    /\ steps' = 0
    /\ UNCHANGED <<front, lex, tokens, input, root, parser, pstack, pctl>>

Next ==
    \/ ParseString
    \/ ParseExpression
    \/ ParenReturned
    \/ LamBodyReturned
    \/ ParseAppFnReturned
    \/ ParseAppArgReturned
    \/ ParseReturned
    \/ Eval
    \/ EvalEnv
    \/ AppFnReturned
    \/ AppArgReturned
    \/ Return
    \/ Again

Spec == Init /\ [][Next]_vars

----------------------------------------------------------------------------
(* collectTokens: nextToken until an error token or end-of-input *)

MaxLexPieces == 3   \* pieces of source text in an input of the lexer

LexPieces ==
    {<<"3">>, <<"0">>, <<"x">>, wTrue, <<"-">>, <<"(">>, <<")">>, <<" ">>,
     <<"]">>}

LexInputs ==
    UNION {{Concat(ps) : ps \in [1..k -> LexPieces]} : k \in 0..MaxLexPieces}

LexInit ==
    /\ input \in LexInputs
    /\ pc = "lex"
    /\ lex = newLexer(input)
    /\ tokens = <<>>
    /\ root = NoNode
    /\ parser = newParser(input)
    /\ pstack = <<>>
    /\ pctl = NotParsing
    /\ ctl = Idle
    /\ stack = <<>>
    /\ envs = defaultFrames
    /\ heapNext = HeapBase
    /\ evalNo = 1
    /\ first = Panicked
    /\ reused = FALSE
    /\ log = <<>>
    /\ steps = 0
    /\ front = NoFrontEnd

\* one iteration of the loop of collectTokens
CollectToken ==
    /\ pc = "lex"
    /\ LET r == nextToken(lex)
       IN  /\ lex' = r.l
           /\ tokens' = Append(tokens, r.tok)
           /\ pc' = IF r.tok.typ \in {tokenError, tokenEOF}
                    THEN "lexed" ELSE "lex"
    /\ UNCHANGED <<front, input, root, parser, pstack, pctl>>
    /\ UNCHANGED evalVars

LexNext == CollectToken

LexSpec == LexInit /\ [][LexNext]_vars

----------------------------------------------------------------------------
(* main: interactiveMode and scriptMode *)

MaxReads == 3   \* calls of rl.Readline in one session

\* lines the user types
Lines ==
    {wLam \o <<" ">> \o wX, wX, wApp \o <<" ">> \o wAdd, <<" ", "1", " ">>,
     <<"(">>, <<")">>, <<>>, <<"]">>}

ScriptInputs ==
    Expressions \cup {LamXText, <<>>, <<"]">>, <<"1", ")">>,
                      App2Text(NumText(1), NumText(2)),
                      AddText(NumText(1), NumText(2))}

RECURSIVE TrimLeft(_)
TrimLeft(s) == IF s # <<>> /\ isSpace(Head(s)) THEN TrimLeft(Tail(s)) ELSE s

RECURSIVE TrimRight(_)
TrimRight(s) ==
    IF s # <<>> /\ isSpace(s[Len(s)])
    THEN TrimRight(SubSeq(s, 1, Len(s) - 1)) ELSE s

\* strings.TrimSpace
TrimSpace(s) == TrimRight(TrimLeft(s))

FrontInit ==
    /\ \E m \in {"interactive", "script"}, f \in BOOLEAN :
          front = [mode |-> m, format |-> f, reads |-> 0, out |-> <<>>]
    /\ IF front.mode = "interactive"
       THEN input = <<>> /\ pc = "read"
       ELSE input \in ScriptInputs /\ pc = "start"
    /\ root = NoNode
    /\ parser = newParser(input)
    /\ pstack = <<>>
    /\ pctl = NotParsing
    /\ ctl = Idle
    /\ stack = <<>>
    /\ envs = defaultFrames
    /\ heapNext = HeapBase
    /\ evalNo = 1
    /\ first = Panicked
    /\ reused = FALSE
    /\ log = <<>>
    /\ steps = 0
    /\ lex = newLexer(input)
    /\ tokens = <<>>

Println(text) == [front EXCEPT !.out = Append(@, text)]

\* rl.Readline() returns a line: it is appended and the program is parsed
Readline ==
    /\ front.mode = "interactive"
    /\ pc = "read"
    /\ front.reads < MaxReads
    /\ \E line \in Lines :
          input' = IF TrimSpace(line) # <<>>
                   THEN input \o TrimSpace(line) \o <<"\n">>
                   ELSE input
    /\ front' = [front EXCEPT !.reads = @ + 1]
    /\ pc' = "start"
    /\ UNCHANGED <<lex, tokens, root, parser, pstack, pctl>>
    /\ UNCHANGED evalVars

\* rl.Readline() returns io.EOF or readline.ErrInterrupt
ReadInterrupted ==
    /\ front.mode = "interactive"
    /\ pc = "read"
    /\ front.reads < MaxReads
    /\ \E line \in {<<>>, wX} :
          IF input = <<>> /\ line = <<>>
          THEN pc' = "exit" /\ input' = input
          ELSE pc' = "read" /\ input' = <<>>
    /\ front' = [front EXCEPT !.reads = @ + 1]
    /\ UNCHANGED <<lex, tokens, root, parser, pstack, pctl>>
    /\ UNCHANGED evalVars

\* the end of an iteration of the loop of interactiveMode: ReadNew
ReadNew ==
    /\ pc' = "read"
    /\ input' = <<>>

\* variant of InteractiveDispatch: only the unexpected-EOF error is tested
InteractiveDispatchOnlyEOF ==
    /\ front.mode = "interactive"
    /\ pc = "parsed"
    /\ IF root.typ = nodeError /\ isUnexpectedEOFError(root)
       THEN /\ pc' = "read"
            /\ UNCHANGED <<input, front>>
            /\ UNCHANGED evalVars
       ELSE IF front.format
       THEN /\ front' = Println("format")
            /\ ReadNew
            /\ UNCHANGED evalVars
       ELSE Eval
    /\ UNCHANGED <<lex, tokens, root, parser, pstack, pctl>>

\* interactiveMode after node := parseString(program)
InteractiveDispatch ==
    /\ front.mode = "interactive"
    /\ pc = "parsed"
    /\ IF root.typ = nodeError /\ isUnexpectedEOFError(root)
       THEN /\ pc' = "read"
            /\ UNCHANGED <<input, front>>
            /\ UNCHANGED evalVars
       ELSE IF root.typ = nodeError
       THEN /\ front' = Println("parse error: " \o error_Error(root.val))
            /\ ReadNew
            /\ UNCHANGED evalVars
       ELSE IF front.format
       THEN /\ front' = Println("format")
            /\ ReadNew
            /\ UNCHANGED evalVars
       ELSE Eval
    /\ UNCHANGED <<lex, tokens, root, parser, pstack, pctl>>

\* the evaluator's state before the next call of eval
NextEval ==
    /\ ctl' = Idle
    /\ stack' = <<>>
    /\ envs' = SubSeq(envs, 1, defaultEnvironment)
    /\ log' = <<>>
    /\ steps' = 0
    /\ UNCHANGED <<heapNext, evalNo, first, reused>>

\* fmt.Println(eval(node)) in interactiveMode
InteractivePrint ==
    /\ front.mode = "interactive"
    /\ pc = "done"
    /\ front' = Println(String(ctl.val))
    /\ ReadNew
    /\ NextEval
    /\ UNCHANGED <<lex, tokens, root, parser, pstack, pctl>>

\* scriptMode after node := parseString(string(program))
ScriptDispatch ==
    /\ front.mode = "script"
    /\ pc = "parsed"
    /\ IF root.typ = nodeError
       THEN /\ front' = Println("laminterp: parse error: "
                                \o error_Error(root.val))
            /\ pc' = "exit"
            /\ UNCHANGED input
            /\ UNCHANGED evalVars
       ELSE IF front.format
       THEN /\ front' = Println("format")
            /\ pc' = "exit"
            /\ UNCHANGED input
            /\ UNCHANGED evalVars
       ELSE Eval
    /\ UNCHANGED <<lex, tokens, root, parser, pstack, pctl>>

\* scriptMode after obj := eval(node)
ScriptPrint ==
    /\ front.mode = "script"
    /\ pc = "done"
    /\ front' = Println(IF ctl.val.typ = objectError
                        THEN "laminterp: runtime error: " \o String(ctl.val)
                        ELSE String(ctl.val))
    /\ pc' = "exit"
    /\ UNCHANGED <<lex, tokens, input, root, parser, pstack, pctl>>
    /\ UNCHANGED evalVars

FrontNext ==
    \/ Readline
    \/ ReadInterrupted
    \/ ParseString
    \/ ParseExpression
    \/ ParenReturned
    \/ LamBodyReturned
    \/ ParseAppFnReturned
    \/ ParseAppArgReturned
    \/ ParseReturned
    \/ InteractiveDispatch
    \/ ScriptDispatch
    \/ EvalEnv
    \/ AppFnReturned
    \/ AppArgReturned
    \/ Return
    \/ InteractivePrint
    \/ ScriptPrint

FrontSpec == FrontInit /\ [][FrontNext]_vars

----------------------------------------------------------------------------
(* Claims *)

Parsed == pc \notin {"start", "parse"}

\* C1: evaluating an error node returns an error object equivalent to the
\* parse error and never aborts, whatever kind of error the node holds.
C1_ErrorNodeEvaluatesToErrorObject ==
    (root.typ = nodeError /\ ctl.mode = "ret") =>
        /\ pc # "panic"
        /\ ctl.val.typ = objectError

\* C2: parse never aborts: parseString returns a syntax tree or an error
\* node, and the pushback buffer is empty whenever unnext is called, so the
\* "multiple unnext" panic does not happen.
C2_ParseNeverAborts ==
    /\ parser.panic = ""
    /\ Parsed => root.typ \in {nodeError, nodeApp, nodeLam, nodeIdentifier,
                               nodeNumber, nodeBool}

\* a parse that pushed a token back more than once and built a tree
C2_Witness ==
    /\ Parsed
    /\ parser.unnexts >= 2
    /\ parser.panic = ""
    /\ root.typ = nodeApp

\* C10: isUnexpectedEOFError(n) holds exactly for an error node with an
\* expectation error whose received token is end-of-input, that is, exactly
\* when the parse failed on reading the end-of-input token; it is false for
\* a successful parse, a lexical error and an expectation error that
\* received another token; parse("lam x") is classified as incomplete.
C10_UnexpectedEOFClassification ==
    Parsed =>
        /\ isUnexpectedEOFError(root)
              <=> (root.typ = nodeError /\ parser.last = tokenEOF)
        /\ root.typ # nodeError => ~isUnexpectedEOFError(root)
        /\ (root.typ = nodeError /\ "errorString" \in DOMAIN root.val)
              => ~isUnexpectedEOFError(root)
        /\ (root.typ = nodeError /\ "expectError" \in DOMAIN root.val)
              => (isUnexpectedEOFError(root)
                    <=> root.val.expectError.got = tokenEOF)
        /\ input = LamXText => isUnexpectedEOFError(root)

\* "lam x" has been parsed and is classified as incomplete
C10_Witness ==
    /\ Parsed
    /\ input = LamXText
    /\ root = newExpectError(syntaxExpression, tokenEOF)
    /\ isUnexpectedEOFError(root)

----------------------------------------------------------------------------
(* Observations of an evaluation *)

\* positions of the log where evalEnv was entered for the node at path
EvalIdx(path) ==
    {i \in 1..Len(log) : log[i].ev = "eval" /\ log[i].n = path}

\* positions of the log where the value of the node at path was handed to
\* the application it is an operand of
ValIdx(path) ==
    {i \in 1..Len(log) : log[i].ev = "val" /\ log[i].n = path}

ValOf(path) == log[CHOOSE i \in ValIdx(path) : TRUE].val

ApplyIdx == {i \in 1..Len(log) : log[i].ev = "apply"}

Min(S) == CHOOSE m \in S : \A k \in S : m <= k

\* the frames of an environment, innermost first
RECURSIVE Chain(_, _)
Chain(heap, e) ==
    IF e = 0 THEN <<>> ELSE <<e>> \o Chain(heap, heap[e].parent)

AtIdentifier ==
    /\ pc = "eval"
    /\ ctl.mode = "eval"
    /\ steps < MaxSteps
    /\ NodeAt(root, ctl.n).typ = nodeIdentifier

\* the application on top of the stack has both operand values
AtApply ==
    /\ pc = "eval"
    /\ ctl.mode = "ret"
    /\ stack # <<>>
    /\ Head(stack).stage = "arg"
    /\ ctl.val.typ # objectError

AtFnValue ==
    /\ pc = "eval"
    /\ ctl.mode = "ret"
    /\ stack # <<>>
    /\ Head(stack).stage = "fn"

\* a number object whose integer is k, wherever the integer lives
IsNumber(v, k) ==
    /\ v.typ = objectNumber
    /\ v.val.bigInt = k

\* the number object of an integer k allocated by new(big.Int)
NumberObject(k) == [typ |-> objectNumber, val |-> [bigInt |-> k, at |-> NewInt]]

\* C3: evaluating an error-free tree in the default environment never
\* reaches a panic; applying a boolean or a number returns the error
\* "apply: invalid function: '<value>'" and an identifier bound in no frame
\* returns "unknown identifier: '<name>'".
C3_Step ==
    /\ root.typ # nodeError => pc' # "panic"
    /\ (AtApply /\ Head(stack).fn.typ \in {objectBool, objectNumber}) =>
          ctl' = Returning(errorObjectf(
                   "apply: invalid function: '"
                   \o (IF Head(stack).fn.typ = objectBool
                       THEN (IF Head(stack).fn.val.bool THEN "true" ELSE "false")
                       ELSE ToString(Head(stack).fn.val.bigInt))
                   \o "'"))
    /\ (AtIdentifier
        /\ \A i \in 1..Len(Chain(envs, ctl.env)) :
              envs[Chain(envs, ctl.env)[i]].symbol
                 # NodeAt(root, ctl.n).val.string) =>
          ctl' = Returning(errorObjectf(
                   "unknown identifier: '" \o NodeAt(root, ctl.n).val.string
                   \o "'"))

C3_RuntimeFailuresAreErrorObjects == [][C3_Step]_vars

\* "app true 1" has returned the invalid-function error
C3_Witness ==
    /\ pc = "done"
    /\ input = App2Text(wTrue, NumText(1))
    /\ ctl.val = errorObjectf("apply: invalid function: 'true'")

\* C4: in app f a, f is evaluated first; an error value of f is the result
\* and a is not evaluated; otherwise a is evaluated and an error value of a
\* is the result and the function is not invoked.  The first error is the
\* result of the whole expression, and no builtin or closure is applied to
\* an error object: no frame binds one.
C4_Step ==
    /\ (pc = "eval" /\ ctl.mode = "eval" /\ steps < MaxSteps
        /\ NodeAt(root, ctl.n).typ = nodeApp) =>
          ctl' = [mode |-> "eval", n |-> Append(ctl.n, "fn"), env |-> ctl.env]
    /\ (AtFnValue /\ ctl.val.typ # objectError) =>
          ctl' = [mode |-> "eval", n |-> Append(Head(stack).app, "arg"),
                  env |-> Head(stack).env]
    /\ (pc = "eval" /\ ctl.mode = "ret" /\ ctl.val.typ = objectError) =>
          /\ ctl' = ctl
          /\ steps' = steps
          /\ envs' = envs
          /\ stack # <<>> => stack' = Tail(stack)
          /\ \A i \in 1..Len(log') : i > Len(log) => log'[i].ev = "val"

C4_NoErrorOperand ==
    /\ \A i \in 1..Len(envs) : envs[i].val.typ # objectError
    /\ \A i \in ApplyIdx :
          log[i].fn.typ # objectError /\ log[i].arg.typ # objectError

C4_FirstErrorWins == []C4_NoErrorOperand /\ [][C4_Step]_vars

\* "app x 1": the value of x was an error, 1 was not evaluated
C4_Witness ==
    /\ pc = "done"
    /\ input = App2Text(wX, NumText(1))
    /\ ValIdx(<<"fn">>) # {}
    /\ ValOf(<<"fn">>).typ = objectError
    /\ EvalIdx(<<"arg">>) = {}
    /\ ctl.val = ValOf(<<"fn">>)

\* C5: a closure's body is evaluated in the environment captured where the
\* lambda was evaluated, extended with exactly one frame parameter ->
\* argument, and not in the environment of the call site; a free identifier
\* of the body resolves to the binding visible where the lambda was created.
C5_Step ==
    /\ (pc = "eval" /\ ctl.mode = "eval" /\ steps < MaxSteps
        /\ NodeAt(root, ctl.n).typ = nodeLam) =>
          /\ ctl'.mode = "ret"
          /\ ctl'.val.typ = objectLam
          /\ ctl'.val.val.lamObject.node = ctl.n
          /\ ctl'.val.val.lamObject.env = ctl.env
    /\ (AtApply /\ Head(stack).fn.typ = objectLam) =>
          LET lam == Head(stack).fn.val.lamObject
          IN  /\ Len(envs') = Len(envs) + 1
              /\ SubSeq(envs', 1, Len(envs)) = envs
              /\ envs'[Len(envs')] =
                    [parent |-> lam.env,
                     symbol |-> NodeAt(root, lam.node).val.lamNode.param,
                     val    |-> ctl.val]
              /\ ctl' = [mode |-> "eval", n |-> Append(lam.node, "body"),
                         env |-> Len(envs')]

C5_Results ==
    pc = "done" =>
        /\ input = ClosureText(wX, wY, wX, NumText(1), NumText(MaxNum))
              => IsNumber(ctl.val, 1)
        /\ \A p \in {wX, wY}, c \in 0..1 :
              input = ScopeText(p, wX, wX, NumText(MaxNum), NumText(c))
                 => IsNumber(ctl.val, c)

C5_LexicalScoping == []C5_Results /\ [][C5_Step]_vars

\* the closure lam y x was created under x -> 1 and called under x -> MaxNum
C5_Witness ==
    /\ pc = "done"
    /\ input = ScopeText(wX, wX, wX, NumText(MaxNum), NumText(1))
    /\ \E i \in 1..Len(envs) : envs[i].symbol = "x"
                               /\ IsNumber(envs[i].val, MaxNum)
    /\ IsNumber(ctl.val, 1)

\* C6: lookup returns the value of the innermost frame whose symbol matches,
\* so an inner parameter shadows an outer binding of the same name, the
\* builtins included; a symbol found in no frame yields the error
\* "unknown identifier: '<name>'".
C6_Step ==
    AtIdentifier =>
        LET name == NodeAt(root, ctl.n).val.string
            ch   == Chain(envs, ctl.env)
            hits == {i \in 1..Len(ch) : envs[ch[i]].symbol = name}
        IN  ctl' = Returning(
                     IF hits = {}
                     THEN errorObjectf("unknown identifier: '" \o name \o "'")
                     ELSE envs[ch[Min(hits)]].val)

C6_Results ==
    pc = "done" =>
        /\ input = ClosureText(wAdd, wAdd, wAdd, NumText(1), NumText(MaxNum))
              => IsNumber(ctl.val, MaxNum)
        /\ input = ClosureText(wAdd, wX, wAdd, NumText(1), NumText(MaxNum))
              => IsNumber(ctl.val, 1)
        /\ input = ClosureText(wX, wX, wY, NumText(1), NumText(MaxNum))
              => ctl.val = errorObjectf("unknown identifier: 'y'")

C6_Shadowing == []C6_Results /\ [][C6_Step]_vars

\* app app lam add lam add add 1 MaxNum: three frames bind add, the
\* innermost one gave the result
C6_Witness ==
    /\ pc = "done"
    /\ input = ClosureText(wAdd, wAdd, wAdd, NumText(1), NumText(MaxNum))
    /\ Cardinality({i \in 1..Len(envs) : envs[i].symbol = "add"}) >= 3
    /\ IsNumber(ctl.val, MaxNum)

\* the operands of app app app if c t e and of app app add a b, by pointer
PathC == <<"fn", "fn", "arg">>
PathT == <<"fn", "arg">>
PathE == <<"arg">>

\* C7: if does not short-circuit: in app app app if c t e with c a boolean,
\* t and then e are evaluated before a branch is selected; the result is the
\* value of t when c is true and of e when c is false, and an error of t or
\* of e, also of the branch not selected, is the result.  When c is a
\* non-boolean value v the result is the error "if: not a bool: '<v>'".
C7_IfIsEager ==
    (pc = "done" /\ input \in IfPrograms) =>
        /\ ValIdx(PathC) # {}
        /\ LET vc == ValOf(PathC)
           IN  CASE vc.typ = objectError -> ctl.val = vc
                 [] vc.typ = objectBool ->
                      /\ ValIdx(PathT) # {}
                      /\ IF ValOf(PathT).typ = objectError
                         THEN ctl.val = ValOf(PathT)
                         ELSE /\ ValIdx(PathE) # {}
                              /\ Min(EvalIdx(PathT)) < Min(EvalIdx(PathE))
                              /\ \A i \in ApplyIdx :
                                    (/\ log[i].fn.typ = objectFunc
                                     /\ log[i].fn.val.funcObject.name = "if"
                                     /\ Len(log[i].fn.val.funcObject.args) = 2)
                                       => /\ Min(ValIdx(PathE)) < i
                                          /\ Min(ValIdx(PathT)) < i
                              /\ IF ValOf(PathE).typ = objectError
                                 THEN ctl.val = ValOf(PathE)
                                 ELSE ctl.val = IF vc.val.bool
                                                THEN ValOf(PathT)
                                                ELSE ValOf(PathE)
                 [] OTHER ->
                      ctl.val = errorObjectf("if: not a bool: '"
                                             \o String(vc) \o "'")

\* app app app if true 1 x: the branch that would not be selected failed
C7_Witness ==
    /\ pc = "done"
    /\ input = IfText(wTrue, NumText(1), wX)
    /\ IsNumber(ValOf(PathT), 1)
    /\ ctl.val = errorObjectf("unknown identifier: 'x'")

\* C8: app app add a b returns the exact sum of two integers, negative ones
\* included; a first argument that is not a number gives the error
\* "add: not a number: '<first value>'", a second one that is not a number
\* gives "add: not a number: '<second value>'".
C8_AddIsCurriedSum ==
    (pc = "done" /\ input \in AddPrograms) =>
        /\ ValIdx(PathT) # {}
        /\ LET va == ValOf(PathT)
           IN  CASE va.typ = objectError -> ctl.val = va
                 [] va.typ = objectNumber ->
                      /\ ValIdx(PathE) # {}
                      /\ LET vb == ValOf(PathE)
                         IN  CASE vb.typ = objectError -> ctl.val = vb
                               [] vb.typ = objectNumber -> ctl.val.typ = objectNumber
                               [] OTHER ->
                                    ctl.val = errorObjectf(
                                                "add: not a number: '"
                                                \o String(vb) \o "'")
                 [] OTHER ->
                      ctl.val = errorObjectf("add: not a number: '"
                                             \o String(va) \o "'")
        /\ \A a \in -1..MaxNum, b \in -1..MaxNum :
              input = AddText(NumText(a), NumText(b)) =>
                 /\ ctl.val = NumberObject(a + b)
                 /\ String(ctl.val) = ToString(a + b)
        /\ input = AddText(wFalse, NumText(1))
              => ctl.val = errorObjectf("add: not a number: 'false'")
        /\ input = AddText(NumText(1), wTrue)
              => ctl.val = errorObjectf("add: not a number: 'true'")

\* app app add 1 true: the error names the second argument
C8_Witness ==
    /\ pc = "done"
    /\ input = AddText(NumText(1), wTrue)
    /\ IsNumber(ValOf(PathT), 1)
    /\ ctl.val = errorObjectf("add: not a number: 'true'")

BothEvaluated == pc = "done" /\ evalNo = 2

----------------------------------------------------------------------------
(* Observations of a parse *)

\* the tokens of a text, end-of-input included, read by nextToken alone
RECURSIVE Tokens(_)
Tokens(l) ==
    LET r == nextToken(l)
    IN  IF r.tok.typ = tokenEOF THEN <<r.tok>> ELSE <<r.tok>> \o Tokens(r.l)

\* number of tokens the parser has taken from its lexer
Consumed == parser.nexts - parser.unnexts

\* the token a call of p.next() is about to return
Upcoming ==
    IF parser.buf # <<>> THEN parser.buf[1]
    ELSE Tokens(newLexer(input))[Consumed + 1]

ErrorText(n) == IF n.typ = nodeError THEN error_Error(n.val) ELSE ""

\* C11: after a well-formed expression, a further token t that is not
\* end-of-input gives "expecting EOF; got <kind of t>" and parse succeeds
\* only when end-of-input follows the expression; ( e with end-of-input in
\* place of the closing parenthesis gives "expecting ')'; got EOF"; a ) in
\* expression position gives "expecting expression; got ')'".
C11_Step ==
    /\ (WaitingFor("parse", "e") /\ pctl.node.typ # nodeError) =>
          IF Upcoming.typ = tokenEOF
          THEN root' = pctl.node
          ELSE ErrorText(root') =
                  "expecting EOF; got " \o tokenType_String(Upcoming.typ)
    /\ (WaitingFor("parseExpression", "e") /\ pctl.node.typ # nodeError
        /\ Upcoming.typ = tokenEOF) =>
          /\ pctl'.mode = "ret"
          /\ ErrorText(pctl'.node) = "expecting ')'; got EOF"
    /\ (pc = "parse" /\ pctl.mode = "call"
        /\ Upcoming.typ = tokenRightParen) =>
          /\ pctl'.mode = "ret"
          /\ ErrorText(pctl'.node) = "expecting expression; got ')'"

C11_Results ==
    Parsed =>
        /\ input \in Expressions => root.typ # nodeError
        /\ root.typ \notin {nodeError, NoNode.typ} =>
              /\ Consumed = Len(Tokens(newLexer(input)))
              /\ parser.last = tokenEOF
        /\ \A e \in Expressions :
              /\ input = UnclosedText(e) =>
                    ErrorText(root) = "expecting ')'; got EOF"
              /\ \A t \in TrailingTokens :
                    input = TrailingText(e, t) =>
                       ErrorText(root) =
                          "expecting EOF; got "
                          \o tokenType_String(Tokens(newLexer(t))[1].typ)
        /\ input = <<"(", ")">> =>
              ErrorText(root) = "expecting expression; got ')'"
        /\ input = <<"(", "1">> => ErrorText(root) = "expecting ')'; got EOF"
        /\ input = <<"1", ")">> => ErrorText(root) = "expecting EOF; got ')'"

C11_ExpectationErrors == []C11_Results /\ [][C11_Step]_vars

\* "x (" has been parsed: the expression x, then a further token
C11_Witness ==
    /\ Parsed
    /\ input = TrailingText(wX, <<"(">>)
    /\ root = newExpectError(syntaxEOF, tokenLeftParen)

RECURSIVE HasError(_)
HasError(n) ==
    CASE n.typ = nodeError -> TRUE
      [] n.typ = nodeApp -> \/ HasError(n.val.appNode.fn)
                            \/ HasError(n.val.appNode.arg)
      [] n.typ = nodeLam -> HasError(n.val.lamNode.body)
      [] OTHER -> FALSE

\* a parse function has just returned an error node to its caller
ErrorReturned ==
    /\ pc = "parse"
    /\ pctl.mode = "ret"
    /\ pctl.node.typ = nodeError

\* C12: when a sub-production returns an error node, the enclosing
\* production returns that same node and takes no further token, up to
\* parse itself; a lambda whose parameter is not an identifier returns the
\* error of parseIdentifier.  The result of parse is one error node or a
\* tree with no error node at any depth.
C12_Step ==
    /\ ErrorReturned =>
          /\ parser' = parser
          /\ pstack' = Tail(pstack)
          /\ \/ pc' = "parse" /\ pctl' = pctl
             \/ pc' = "parsed" /\ root' = pctl.node /\ pstack' = <<>>
    /\ (pc = "parse" /\ pctl.mode = "call"
        /\ Upcoming.typ = tokenIdentifier /\ Str(Upcoming.val) = "lam"
        /\ Tokens(newLexer(input))[Consumed + 2].typ # tokenIdentifier) =>
          /\ pctl' = Returned(newExpectError(syntaxIdentifier,
                        Tokens(newLexer(input))[Consumed + 2].typ))
          /\ parser'.nexts = parser.nexts + 2
          /\ pstack' = pstack

C12_Results ==
    /\ Parsed => (root.typ = nodeError \/ ~HasError(root))
    /\ (pc = "parse" /\ pctl.mode = "ret") =>
          (pctl.node.typ = nodeError \/ ~HasError(pctl.node))
    /\ \A i \in 1..Len(pstack) : ~HasError(pstack[i].node)

C12_ErrorPropagation == []C12_Results /\ [][C12_Step]_vars

\* "app (]": the error of ] went through the parenthesis, parseApp and parse
C12_Witness ==
    /\ Parsed
    /\ input = wApp \o <<" ", "(", "]">>
    /\ root.typ = nodeError
    /\ "errorString" \in DOMAIN root.val
    /\ Consumed = 3

Ident(name) == [typ |-> nodeIdentifier, val |-> [string |-> name]]

Num(k) == [typ |-> nodeNumber, val |-> [bigInt |-> k]]

Lam(param, body) ==
    [typ |-> nodeLam, val |-> [lamNode |-> [param |-> param, body |-> body]]]

App(fn, arg) ==
    [typ |-> nodeApp, val |-> [appNode |-> [fn |-> fn, arg |-> arg]]]

\* the names of the identifier nodes of a tree
RECURSIVE IdentifiersOf(_)
IdentifiersOf(n) ==
    CASE n.typ = nodeIdentifier -> {n.val.string}
      [] n.typ = nodeApp -> IdentifiersOf(n.val.appNode.fn)
                            \cup IdentifiersOf(n.val.appNode.arg)
      [] n.typ = nodeLam -> IdentifiersOf(n.val.lamNode.body)
      [] OTHER -> {}

\* C13 as stated: lam and app are keywords only at the head of an
\* expression; as a parameter name and as an identifier referenced in a body
\* or an argument they parse as identifier nodes named "lam" / "app".
C13_KeywordsOnlyAtHead ==
    Parsed =>
        \A k \in {wLam, wApp} :
            /\ input = Join(<<wLam, k, NumText(1)>>) =>
                  root = Lam(Str(k), Num(1))
            /\ input = Join(<<wLam, wX, k>>) =>
                  root = Lam("x", Ident(Str(k)))
            /\ input = Join(<<wLam, wLam, k>>) =>
                  root = Lam("lam", Ident(Str(k)))
            /\ input = App2Text(wX, k) => root = App(Ident("x"), Ident(Str(k)))

\* C13 as amended: lam and app are keywords wherever an expression is
\* expected, a body and an argument included; only as a parameter name are
\* they ordinary identifiers.  No identifier node is named lam or app.
C13_KeywordsInEveryExpression ==
    /\ (pc = "parse" /\ pctl.mode = "ret"
        /\ pctl.node.typ # nodeError) =>
          IdentifiersOf(pctl.node) \cap {"lam", "app"} = {}
    /\ Parsed =>
        /\ root.typ \notin {nodeError, NoNode.typ} =>
              IdentifiersOf(root) \cap {"lam", "app"} = {}
        /\ \A k \in {wLam, wApp} :
              /\ input = Join(<<wLam, k, NumText(1)>>) =>
                    root = Lam(Str(k), Num(1))
              /\ input = Join(<<wLam, k, wX>>) =>
                    root = Lam(Str(k), Ident("x"))
        /\ \A p \in {wLam, wApp, wX} :
              /\ input = Join(<<wLam, p, wLam>>) =>
                    ErrorText(root) = "expecting identifier; got EOF"
              /\ input = Join(<<wLam, p, wApp>>) =>
                    ErrorText(root) = "expecting expression; got EOF"
        /\ input = App2Text(wX, wLam) =>
              ErrorText(root) = "expecting identifier; got EOF"
        /\ input = App2Text(wX, wApp) =>
              ErrorText(root) = "expecting expression; got EOF"

\* "lam lam x" has been parsed: a lambda whose parameter is named lam
C13_Witness ==
    /\ Parsed
    /\ input = Join(<<wLam, wLam, wX>>)
    /\ root = Lam("lam", Ident("x"))

----------------------------------------------------------------------------
(* Observations of the lexer: the text in front of lex, read directly *)

CharAt(i) == IF i > Len(input) THEN eof ELSE input[i]

\* the text from position i up to, not including, position j
Text(i, j) == SubSeq(input, i, j - 1)

\* first position from i on whose character is not a space
TokenStart ==
    CHOOSE j \in (lex.pos + 1)..(Len(input) + 1) :
        /\ \A k \in (lex.pos + 1)..(j - 1) : isSpace(input[k])
        /\ ~isSpace(CharAt(j))

DigitsStart == IF CharAt(TokenStart) = "-" THEN TokenStart + 1 ELSE TokenStart

\* first position after the digits that start at DigitsStart
NumberEnd ==
    CHOOSE j \in DigitsStart..(Len(input) + 1) :
        /\ \A k \in DigitsStart..(j - 1) : isDigit(input[k])
        /\ ~isDigit(CharAt(j))

\* first position after the letters and digits that start at TokenStart
WordEnd ==
    CHOOSE j \in TokenStart..(Len(input) + 1) :
        /\ \A k \in TokenStart..(j - 1) : isDigit(input[k]) \/ isLetter(input[k])
        /\ ~(isDigit(CharAt(j)) \/ isLetter(CharAt(j)))

\* position of the first boundary character from TokenStart on
RunEnd ==
    CHOOSE j \in TokenStart..(Len(input) + 1) :
        /\ \A k \in TokenStart..(j - 1) : ~isBoundary(input[k])
        /\ isBoundary(CharAt(j))

Collecting == pc = "lex"

\* one or more digits, then a character that is not a boundary
BadNumberRun ==
    /\ Collecting
    /\ NumberEnd > DigitsStart
    /\ ~isBoundary(CharAt(NumberEnd))

\* true or false, then a character that is not a boundary
BadLiteralRun ==
    /\ Collecting
    /\ \E lit \in {wTrue, wFalse} :
          /\ TokenStart + Len(lit) <= Len(input)
          /\ Text(TokenStart, TokenStart + Len(lit)) = lit
          /\ ~isBoundary(CharAt(TokenStart + Len(lit)))

\* a letter, letters and digits, then a character that ends the word and is
\* not a boundary
BadWordRun ==
    /\ Collecting
    /\ isLetter(CharAt(TokenStart))
    /\ ~isBoundary(CharAt(WordEnd))

LexErrorOf(text) ==
    {"bad number syntax: '" \o Str(text) \o "'",
     "bad identifier syntax: '" \o Str(text) \o "'"}


\* C14 as stated: a digit run or a true/false literal directly followed by
\* a non-boundary character gives one error token whose message holds the
\* whole run up to the next boundary character, and no valid token for any
\* part of it; "3x" and "truex" each lex to exactly one error token.
C14_Step ==
    (BadNumberRun \/ BadLiteralRun) =>
        /\ tokens'[Len(tokens')].typ = tokenError
        /\ Str(tokens'[Len(tokens')].val)
              \in LexErrorOf(Text(TokenStart, RunEnd))
        /\ pc' = "lexed"

C14_Results ==
    (pc = "lexed" /\ input \in {<<"3", "x">>, wTrue \o <<"x">>}) =>
        /\ Len(tokens) = 1
        /\ tokens[1].typ = tokenError

C14_WholeRunOneError == []C14_Results /\ [][C14_Step]_vars

\* C14 as amended: digits directly followed by a character that is neither
\* a digit nor a boundary give the one error token "bad number syntax" with
\* the digits and that one character; a word directly followed by a
\* character that is neither letter, digit nor boundary gives "bad
\* identifier syntax" with the word and that one character; collecting stops
\* there, so no valid token is produced from the run.  true or false followed
\* by letters or digits is an identifier.
C14_AmendedStep ==
    /\ BadNumberRun =>
          /\ tokens'[Len(tokens')].typ = tokenError
          /\ Str(tokens'[Len(tokens')].val) =
                "bad number syntax: '"
                \o Str(Text(TokenStart, NumberEnd + 1)) \o "'"
          /\ pc' = "lexed"
    /\ BadWordRun =>
          /\ tokens'[Len(tokens')].typ = tokenError
          /\ Str(tokens'[Len(tokens')].val) =
                "bad identifier syntax: '"
                \o Str(Text(TokenStart, WordEnd + 1)) \o "'"
          /\ pc' = "lexed"
    /\ (Collecting /\ isLetter(CharAt(TokenStart))
        /\ isBoundary(CharAt(WordEnd))) =>
          /\ tokens'[Len(tokens')].val = Text(TokenStart, WordEnd)
          /\ tokens'[Len(tokens')].typ =
                IF Text(TokenStart, WordEnd) \in {wTrue, wFalse}
                THEN tokenBool ELSE tokenIdentifier

C14_AmendedResults ==
    pc = "lexed" =>
        /\ \A i \in 1..(Len(tokens) - 1) :
              tokens[i].typ \notin {tokenError, tokenEOF}
        /\ input = <<"3", "x">> =>
              /\ Len(tokens) = 1
              /\ tokens[1].typ = tokenError
              /\ Str(tokens[1].val) = "bad number syntax: '3x'"
        /\ input = wTrue \o <<"x">> =>
              /\ Len(tokens) = 2
              /\ tokens[1] = [typ |-> tokenIdentifier, val |-> wTrue \o <<"x">>]
              /\ tokens[2].typ = tokenEOF
        /\ input = wTrue \o <<"(">> =>
              /\ Len(tokens) = 1
              /\ Str(tokens[1].val) = "bad identifier syntax: 'true('"
        /\ input = <<"3", "x", "x">> =>
              /\ Len(tokens) = 1
              /\ Str(tokens[1].val) = "bad number syntax: '3x'"

C14_BoundaryViolation == []C14_AmendedResults /\ [][C14_AmendedStep]_vars

\* "true(" has been lexed to one error token
C14_Witness ==
    /\ pc = "lexed"
    /\ input = wTrue \o <<"(">>
    /\ Len(tokens) = 1
    /\ tokens[1].typ = tokenError

\* an optional -, one or more digits, then a boundary character
NumberAhead ==
    /\ NumberEnd > DigitsStart
    /\ isBoundary(CharAt(NumberEnd))

\* a - that no digit follows
LoneMinus ==
    /\ CharAt(TokenStart) = "-"
    /\ ~isDigit(CharAt(TokenStart + 1))

\* C15: nextToken returns a number token, whose text is exactly the matched
\* characters, if and only if the next non-space input is an optional -,
\* one or more digits and then a boundary character; a - not followed by a
\* digit and a digit run followed by a non-boundary character give the
\* error token "bad number syntax: '<text>'" and no number token.
C15_Step ==
    Collecting =>
        /\ tokens'[Len(tokens')].typ = tokenNumber <=> NumberAhead
        /\ NumberAhead =>
              /\ tokens'[Len(tokens')].val = Text(TokenStart, NumberEnd)
              /\ lex'.pos = NumberEnd - 1
        /\ LoneMinus =>
              /\ tokens'[Len(tokens')].typ = tokenError
              /\ Str(tokens'[Len(tokens')].val) =
                    "bad number syntax: '"
                    \o (IF isBoundary(CharAt(TokenStart + 1)) THEN "-"
                        ELSE Str(Text(TokenStart, TokenStart + 2)))
                    \o "'"
        /\ BadNumberRun =>
              /\ tokens'[Len(tokens')].typ = tokenError
              /\ Str(tokens'[Len(tokens')].val) =
                    "bad number syntax: '"
                    \o Str(Text(TokenStart, NumberEnd + 1)) \o "'"

C15_NumberLexing == [][C15_Step]_vars

\* "-3)" has been lexed: the number -3 ends at the boundary character
C15_Witness ==
    /\ pc = "lexed"
    /\ input = <<"-", "3", ")">>
    /\ Len(tokens) = 3
    /\ tokens[1] = [typ |-> tokenNumber, val |-> <<"-", "3">>]
    /\ tokens[2].typ = tokenRightParen

----------------------------------------------------------------------------
(* Closures *)

AtLambda ==
    /\ pc = "eval"
    /\ ctl.mode = "eval"
    /\ steps < MaxSteps
    /\ NodeAt(root, ctl.n).typ = nodeLam

LastOf(path) == path[Len(path)]

\* C16: evaluating a lambda node returns a closure of that node and of the
\* environment current at that moment and evaluates no part of the body;
\* the body is only entered when a closure is applied, so lam p b is a
\* closure even when b fails or does not terminate.
C16_Step ==
    /\ AtLambda =>
          /\ ctl' = Returning(
                [typ |-> objectLam,
                 val |-> [lamObject |-> [node |-> ctl.n, env |-> ctl.env,
                                         addr |-> heapNext]]])
          /\ pc' = "eval"
          /\ log' = Append(log, [ev |-> "eval", n |-> ctl.n, env |-> ctl.env])
          /\ UNCHANGED <<stack, envs>>
    /\ (pc = "eval" /\ pc' = "eval" /\ ctl'.mode = "eval" /\ ctl'.n # <<>>
        /\ LastOf(ctl'.n) = "body") =>
          /\ AtApply
          /\ Head(stack).fn.typ = objectLam
          /\ ctl'.n = Append(Head(stack).fn.val.lamObject.node, "body")

C16_Results ==
    pc = "done" =>
        /\ \A b \in FailingBodies :
            input = LazyText(b) =>
               /\ ctl.val.typ = objectLam
               /\ ctl.val.val.lamObject.node = <<>>
               /\ ctl.val.val.lamObject.env = defaultEnvironment
               /\ \A i \in 1..Len(log) : log[i].ev = "eval" => log[i].n = <<>>
        /\ input = Join(<<wApp, LazyText(wY), NumText(0)>>) =>
              ctl.val = errorObjectf("unknown identifier: 'y'")
        /\ input = Join(<<wApp, LazyText(App2Text(NumText(1), NumText(2))),
                          NumText(0)>>) =>
              ctl.val = errorObjectf("apply: invalid function: '1'")

C16_LambdaIsLazy == []C16_Results /\ [][C16_Step]_vars

\* lam x app 1 2 is a closure; applied, it is the invalid-function error
C16_Witness ==
    /\ pc = "done"
    /\ input = LazyText(App2Text(NumText(1), NumText(2)))
    /\ ctl.val.typ = objectLam

----------------------------------------------------------------------------
(* Immutability *)

Builtin(name) == newFuncObject(name, <<>>)

\* C17: no step of an evaluation changes a syntax node, the integer of a
\* number node included, or an existing frame; binding a parameter only adds
\* one frame.  The default environment binds exactly add, if and gt to the
\* builtins at all times.
C17_Step ==
    /\ Parsed => root' = root
    /\ \A i \in 1..Len(envs) : i <= Len(envs') => envs'[i] = envs[i]
    /\ Len(envs') > Len(envs) =>
          /\ AtApply
          /\ Head(stack).fn.typ = objectLam
          /\ envs' = Append(envs,
                        newEnvironment(Head(stack).fn.val.lamObject.env,
                                       LamParam(Head(stack).fn.val.lamObject.node),
                                       ctl.val))
    /\ Len(envs') < Len(envs) => pc = "done"

C17_Default ==
    /\ Len(envs) >= defaultEnvironment
    /\ [i \in 1..Len(Chain(envs, defaultEnvironment)) |->
           envs[Chain(envs, defaultEnvironment)[i]].symbol] = <<"gt", "if", "add">>
    /\ \A s \in {"add", "if", "gt"} :
          lookup(envs, defaultEnvironment, s) = Builtin(s)
    /\ \A s \in {"x", "y", "f"} :
          lookup(envs, defaultEnvironment, s).typ = objectError

C17_NothingIsMutated == []C17_Default /\ [][C17_Step]_vars

\* app app add 1 2 evaluated twice: 3 both times, from the same tree
C17_Witness ==
    /\ pc = "done"
    /\ evalNo = 2
    /\ input = AddText(NumText(1), NumText(2))
    /\ IsNumber(ctl.val, 3)
    /\ IsNumber(first, 3)
    /\ root = App(App(Ident("add"), Num(1)), Num(2))

----------------------------------------------------------------------------
(* Front ends *)

ParseErrorText == "parse error: " \o ErrorText(root)

\* C18: neither front end calls eval on an error node.  In interactive mode
\* an unexpected-EOF parse error keeps the accumulated text and reads another
\* line, any other parse error is printed and the program reset to empty; in
\* script mode a parse error ends the process.
C18_Step ==
    /\ (pc = "parsed" /\ root.typ = nodeError
        /\ front.mode = "interactive") =>
          IF isUnexpectedEOFError(root)
          THEN pc' = "read" /\ input' = input /\ front' = front
          ELSE /\ pc' = "read"
               /\ input' = <<>>
               /\ front'.out = Append(front.out, ParseErrorText)
    /\ (pc = "parsed" /\ root.typ = nodeError /\ front.mode = "script") =>
          /\ pc' = "exit"
          /\ front'.out = Append(front.out, "laminterp: " \o ParseErrorText)
    /\ (pc # "eval" /\ pc' = "eval") =>
          /\ pc = "parsed"
          /\ root.typ \in {nodeApp, nodeLam, nodeIdentifier, nodeNumber,
                           nodeBool}
          /\ ctl' = [mode |-> "eval", n |-> <<>>, env |-> defaultEnvironment]
    /\ (pc = "read" /\ pc' = "start") =>
          /\ Len(input') >= Len(input)
          /\ SubSeq(input', 1, Len(input)) = input

C18_NoErrorNode ==
    /\ pc # "panic"
    /\ pc \in {"eval", "done"} => root.typ # nodeError

C18_FrontEndsNeverEvalErrors == []C18_NoErrorNode /\ [][C18_Step]_vars

\* "lam x" was incomplete, "x" was read after it, and lam x x was evaluated
C18_Witness ==
    /\ front.mode = "interactive"
    /\ pc = "done"
    /\ front.reads = 2
    /\ input = wLam \o <<" ">> \o wX \o <<"\n">> \o wX \o <<"\n">>
    /\ ctl.val.typ = objectLam

----------------------------------------------------------------------------
(* Incomplete input *)

\* C19: every proper prefix of the token sequence of a well-formed program,
\* the empty one included, parses to an error node for which
\* isUnexpectedEOFError is true: it is neither accepted as a complete
\* program nor reported as a parse failure.
C19_PrefixesAreIncomplete ==
    Parsed =>
        /\ input \in PrefixTexts =>
              /\ root.typ = nodeError
              /\ isUnexpectedEOFError(root)
        /\ input \in WellFormedTexts =>
              root.typ \in {nodeApp, nodeLam, nodeIdentifier, nodeNumber,
                            nodeBool}

\* "( lam x" has been parsed: a prefix of ( lam x 1 ), missing the body
C19_Witness ==
    /\ Parsed
    /\ input = Join(<<<<"(">>, wLam, wX>>)
    /\ input \in PrefixTexts
    /\ root = newExpectError(syntaxExpression, tokenEOF)
    /\ isUnexpectedEOFError(root)

====
